---- MODULE Spec2Model ----
(***************************************************************************)
(* Model of app.js: the catalog browser's state (items, state, the DOM     *)
(* regions it writes and the listeners it registers), its init() load      *)
(* sequence and its five event handlers.                                   *)
(*                                                                         *)
(* JavaScript strings are sequences of one-character strings.  JavaScript  *)
(* values are records [tag, s, x10, nan]: tag names the type, s is the     *)
(* text of a string, x10 is ten times the value of a number (so one        *)
(* decimal digit is exact) and nan marks NaN.                              *)
(***************************************************************************)
EXTENDS Integers, Sequences, FiniteSets, TLC

\* ------------------------------------------------------------------ bounds

\* Longest catalog (items.json array) the load may deliver.
MaxItems == 2

\* ------------------------------------------------------- JavaScript values

undefined == [tag |-> "undefined", s |-> <<>>, x10 |-> 0, nan |-> FALSE]
null == [tag |-> "null", s |-> <<>>, x10 |-> 0, nan |-> FALSE]
NaN == [tag |-> "number", s |-> <<>>, x10 |-> 0, nan |-> TRUE]
Str(s) == [tag |-> "string", s |-> s, x10 |-> 0, nan |-> FALSE]
NumX10(t) == [tag |-> "number", s |-> <<>>, x10 |-> t, nan |-> FALSE]
Num(n) == NumX10(10 * n)

DigitChars == <<"0", "1", "2", "3", "4", "5", "6", "7", "8", "9">>
LowerChars == <<"a", "b", "c", "d", "e", "f", "g", "h", "i", "j", "k", "l", "m",
                "n", "o", "p", "q", "r", "s", "t", "u", "v", "w", "x", "y", "z">>
UpperChars == <<"A", "B", "C", "D", "E", "F", "G", "H", "I", "J", "K", "L", "M",
                "N", "O", "P", "Q", "R", "S", "T", "U", "V", "W", "X", "Y", "Z">>
\* Characters in collation order below the letters: space, punctuation, digits.
OtherChars == <<" ", "_", "-", ".", "$", "(", ")">> \o DigitChars

Range(f) == {f[i] : i \in DOMAIN f}
IndexOf(c, seq) == CHOOSE i \in DOMAIN seq : seq[i] = c
DigitSet == Range(DigitChars)
UpperSet == Range(UpperChars)
OtherSet == Range(OtherChars)
IsDigit(c) == c \in DigitSet
DigitVal(c) == IndexOf(c, DigitChars) - 1

\* String.prototype.toLowerCase
RECURSIVE pairUp(_, _)
pairUp(from, to) ==
    IF from = <<>> THEN <<>>
    ELSE (Head(from) :> Head(to)) @@ pairUp(Tail(from), Tail(to))
LowerOf == pairUp(UpperChars, LowerChars)
toLowerChar(c) == IF c \in UpperSet THEN LowerOf[c] ELSE c
toLowerCase(s) == [i \in DOMAIN s |-> toLowerChar(s[i])]

\* String.prototype.trim
RECURSIVE trimStart(_)
trimStart(s) == IF s # <<>> /\ Head(s) = " " THEN trimStart(Tail(s)) ELSE s
RECURSIVE trimEnd(_)
trimEnd(s) == IF s # <<>> /\ s[Len(s)] = " " THEN trimEnd(SubSeq(s, 1, Len(s) - 1)) ELSE s
trim(s) == trimEnd(trimStart(s))

\* String.prototype.includes: scan the start positions left to right
RECURSIVE includesFrom(_, _, _)
includesFrom(hay, q, i) ==
    IF i + Len(q) - 1 > Len(hay) THEN FALSE
    ELSE IF SubSeq(hay, i, i + Len(q) - 1) = q THEN TRUE
    ELSE includesFrom(hay, q, i + 1)
includes(hay, q) == includesFrom(hay, q, 1)

\* Array.prototype.join(" ")
RECURSIVE join(_)
join(parts) ==
    IF parts = <<>> THEN <<>>
    ELSE IF Len(parts) = 1 THEN parts[1]
    ELSE parts[1] \o <<" ">> \o join(Tail(parts))

\* Decimal digits of a natural number
RECURSIVE NatToStr(_)
NatToStr(n) ==
    IF n < 10 THEN <<DigitChars[n + 1]>>
    ELSE NatToStr(n \div 10) \o <<DigitChars[(n % 10) + 1]>>

RECURSIVE DigitsToNat(_)
DigitsToNat(ds) ==
    IF ds = <<>> THEN 0
    ELSE 10 * DigitsToNat(SubSeq(ds, 1, Len(ds) - 1)) + DigitVal(ds[Len(ds)])

AllDigits(ds) == \A i \in DOMAIN ds : IsDigit(ds[i])

\* StringToNumber on the decimal literals [sign] digits [. digits]; any other
\* non-empty text is NaN and blank text is 0.  One fraction digit is kept.
decimalLiteral(int, frac, negative) ==
    IF AllDigits(int) /\ AllDigits(frac) /\ Len(int) + Len(frac) >= 1
    THEN NumX10((IF negative THEN -1 ELSE 1)
                * (10 * DigitsToNat(int) + (IF frac = <<>> THEN 0 ELSE DigitVal(frac[1]))))
    ELSE NaN
splitAtDot(body, dot, negative) ==
    decimalLiteral(SubSeq(body, 1, dot - 1), SubSeq(body, dot + 1, Len(body)), negative)
firstDot(body) ==
    IF \E i \in DOMAIN body : body[i] = "."
    THEN CHOOSE i \in DOMAIN body : body[i] = "." /\ \A j \in 1..(i - 1) : body[j] # "."
    ELSE Len(body) + 1
unsignedLiteral(body, negative) == splitAtDot(body, firstDot(body), negative)
signedLiteral(t) ==
    IF t = <<>> THEN Num(0)
    ELSE IF Head(t) = "-" THEN unsignedLiteral(Tail(t), TRUE)
    ELSE IF Head(t) = "+" THEN unsignedLiteral(Tail(t), FALSE)
    ELSE unsignedLiteral(t, FALSE)
StringToNumber(s) == signedLiteral(trim(s))

\* Number(v)
Number(v) ==
    CASE v.tag = "undefined" -> NaN
      [] v.tag = "null" -> Num(0)
      [] v.tag = "number" -> v
      [] v.tag = "string" -> StringToNumber(v.s)

\* Number.prototype.toString and toFixed(2) on the modelled numbers
NumberToString(n) ==
    IF n.nan THEN <<"N", "a", "N">>
    ELSE LET mag == IF n.x10 < 0 THEN 0 - n.x10 ELSE n.x10
         IN  (IF n.x10 < 0 THEN <<"-">> ELSE <<>>) \o NatToStr(mag \div 10)
             \o (IF mag % 10 = 0 THEN <<>> ELSE <<".", DigitChars[(mag % 10) + 1]>>)
toFixed2(n) ==
    IF n.nan THEN <<"N", "a", "N">>
    ELSE LET mag == IF n.x10 < 0 THEN 0 - n.x10 ELSE n.x10
         IN  (IF n.x10 < 0 THEN <<"-">> ELSE <<>>) \o NatToStr(mag \div 10)
             \o <<".", DigitChars[(mag % 10) + 1], "0">>

\* ToString(v), as the template literals and String() apply it
JSToString(v) ==
    CASE v.tag = "undefined" -> <<"u", "n", "d", "e", "f", "i", "n", "e", "d">>
      [] v.tag = "null" -> <<"n", "u", "l", "l">>
      [] v.tag = "number" -> NumberToString(v)
      [] v.tag = "string" -> v.s

\* ToBoolean(v), and the operators built on it
Truthy(v) ==
    CASE v.tag = "undefined" -> FALSE
      [] v.tag = "null" -> FALSE
      [] v.tag = "number" -> ~v.nan /\ v.x10 # 0
      [] v.tag = "string" -> v.s # <<>>
OrElse(a, b) == IF Truthy(a) THEN a ELSE b
Nullish(a, b) == IF a.tag \in {"undefined", "null"} THEN b ELSE a

\* Math.floor, Math.max(0, .), Number.isFinite, +, -, *
MathFloor(n) == IF n.nan THEN NaN ELSE NumX10((n.x10 \div 10) * 10)
MathMax0(n) == IF n.nan THEN NaN ELSE IF n.x10 > 0 THEN n ELSE Num(0)
isFinite(n) == n.tag = "number" /\ ~n.nan
Plus(a, b) == IF a.nan \/ b.nan THEN NaN ELSE NumX10(a.x10 + b.x10)
Minus(a, b) == IF a.nan \/ b.nan THEN NaN ELSE NumX10(a.x10 - b.x10)
Times(a, b) == IF a.nan \/ b.nan THEN NaN ELSE NumX10((a.x10 * b.x10) \div 10)
GreaterThan0(n) == ~n.nan /\ n.x10 > 0

\* ------------------------------------------------------- app.js: helpers

safeText(v) == JSToString(Nullish(v, Str(<<>>)))
normalize(v) == toLowerCase(trim(safeText(v)))

formatMoney(amount, currency) ==
    LET n == Number(OrElse(amount, Num(0)))
    IN  JSToString(currency) \o <<" ">> \o toFixed2(n)

\* Intl collation as String.prototype.localeCompare applies it: the texts are
\* compared ignoring case first; texts equal up to case order lower case first.
RankOf ==
    pairUp(OtherChars \o LowerChars \o UpperChars,
           [i \in 1..(Len(OtherChars) + 2 * Len(LowerChars)) |->
               IF i <= Len(OtherChars) + Len(LowerChars) THEN i ELSE i - Len(LowerChars)])
CollationRank(c) == RankOf[c]
CaseRank(c) == IF c \in UpperSet THEN 1 ELSE 0
RECURSIVE lexCompare(_, _)
lexCompare(a, b) ==
    IF a = <<>> /\ b = <<>> THEN 0
    ELSE IF a = <<>> THEN -1
    ELSE IF b = <<>> THEN 1
    ELSE IF Head(a) < Head(b) THEN -1
    ELSE IF Head(a) > Head(b) THEN 1
    ELSE lexCompare(Tail(a), Tail(b))
caseOrder(primary, a, b) ==
    IF primary # 0 THEN primary
    ELSE lexCompare([i \in DOMAIN a |-> CaseRank(a[i])], [i \in DOMAIN b |-> CaseRank(b[i])])
localeCompare(a, b) ==
    caseOrder(lexCompare([i \in DOMAIN a |-> CollationRank(a[i])],
                         [i \in DOMAIN b |-> CollationRank(b[i])]), a, b)

\* --------------------------------------------------- items.json contents

Product(sku, name, brand, category, description, priceExVat, currency, qty) ==
    [sku |-> sku, name |-> name, brand |-> brand, category |-> category,
     description |-> description, priceExVat |-> priceExVat,
     currency |-> currency, qty |-> qty]

\* The two products of the documented scenario and an unpriced one.  Between
\* them the optional fields are missing, null, empty and set, and the quantity
\* hint is absent, negative and fractional.
Mug == Product(Str(<<"A", "1">>), Str(<<"M", "u", "g">>), null,
               Str(<<"K", "i", "t", "c", "h", "e", "n">>), undefined,
               Num(10), undefined, undefined)
Bowl == Product(Str(<<"B", "2">>), Str(<<"B", "o", "w", "l">>), undefined,
                undefined, Str(<<>>),
                Num(20), Str(<<>>), NumX10(-15))
Jug == Product(Str(<<"C", "3">>), Str(<<" ", "j", "u", "g">>), Str(<<"A", "c", "m", "e">>),
               Str(<<"H", "o", "m", "e">>), Str(<<"B", "i", "g", " ", "B", "o", "w", "l">>),
               undefined, Str(<<"$">>), NumX10(25))
ProductPool == <<Mug, Bowl, Jug>>

\* The arrays items.json may hold: at most MaxItems products of the pool, with
\* pairwise different skus, in the pool's order or in the reverse order, so
\* that every two products occur in both orders.
RECURSIVE selections(_, _)
selections(pool, n) ==
    IF pool = <<>> \/ n = 0 THEN {<<>>}
    ELSE selections(Tail(pool), n)
         \cup {<<Head(pool)>> \o rest : rest \in selections(Tail(pool), n - 1)}
RECURSIVE reverse(_)
reverse(seq) == IF seq = <<>> THEN <<>> ELSE Append(reverse(Tail(seq)), Head(seq))
Catalogs == selections(ProductPool, MaxItems) \cup selections(reverse(ProductPool), MaxItems)

\* Ways the load fails: fetch() rejects, the response is not ok, the payload
\* is not an array.
LoadErrors ==
    {"Failed to fetch", "Failed to load ./items.json (404)",
     "items.json must contain a JSON array of products."}

\* What the user can type into the search box and into a quantity field.
Queries == {<<>>, <<" ", "B", "o", "w", "l", " ">>, <<"a", "1", " ", "m", "u", "g">>}
RawValues ==
    {<<>>, <<"-", "3", ".", "7">>, <<"2", ".", "9">>, <<"a", "b", "c">>, <<"1">>}

ALL == <<"_", "_", "a", "l", "l", "_", "_">>
SortModes == {"name-asc", "name-desc", "price-asc", "price-desc", "sku-asc", "sku-desc"}

\* ----------------------------------------------------------------- state

VARIABLES
    pc,         \* where init() stands: "loading", "ready" or "failed"
    items,      \* let items
    state,      \* const state = {query, category, sort, qtyBySku}
    options,    \* the option values of #categorySelect
    listeners,  \* header: the header controls with a listener; qty: the skus
                \* whose quantity field has one
    dom,        \* resultsMeta, cartCount, cartSubtotal, itemsGrid
    renders     \* calls of render() made by the handler that ran last

vars == <<pc, items, state, options, listeners, dom, renders>>

EmptyLedger == <<>>
\* state.qtyBySku[sku] = qty
Assign(qtyBySku, sku, qty) ==
    IF sku \in DOMAIN qtyBySku THEN [qtyBySku EXCEPT ![sku] = qty]
    ELSE qtyBySku @@ (sku :> qty)
Lookup(qtyBySku, sku) == IF sku \in DOMAIN qtyBySku THEN qtyBySku[sku] ELSE undefined

\* ------------------------------------------------------ app.js: functions

\* One quantity hint as ensureQtyInitialized stores it.
initialQty(it) ==
    LET q == IF isFinite(Number(it.qty)) THEN Number(it.qty) ELSE Num(0)
    IN  MathMax0(MathFloor(q))

\* Variant of ensureQtyInitialized that keys only the products carrying a
\* numeric hint.
ensureHintedOnly(its, qtyBySku) ==
    LET hinted == {i \in DOMAIN its : isFinite(Number(its[i].qty))}
    IN  [sku \in DOMAIN qtyBySku \cup {safeText(its[i].sku) : i \in hinted} |->
            IF sku \in DOMAIN qtyBySku THEN qtyBySku[sku]
            ELSE initialQty(its[CHOOSE i \in hinted : safeText(its[i].sku) = sku])]
\* Variant of the loop that stores the hint over a quantity already held.
RECURSIVE ensureLoopOverwriting(_, _, _)
ensureLoopOverwriting(its, i, qtyBySku) ==
    IF i > Len(its) THEN qtyBySku
    ELSE ensureLoopOverwriting(its, i + 1,
                               Assign(qtyBySku, safeText(its[i].sku), initialQty(its[i])))

\* The loop of ensureQtyInitialized.  No sku of the pool names a property of
\* Object.prototype, so `sku in state.qtyBySku` is the presence of the key.
RECURSIVE ensureLoop(_, _, _)
ensureLoop(its, i, qtyBySku) ==
    IF i > Len(its) THEN qtyBySku
    ELSE LET sku == safeText(its[i].sku)
         IN  IF sku \in DOMAIN qtyBySku THEN ensureLoop(its, i + 1, qtyBySku)
             ELSE ensureLoop(its, i + 1, Assign(qtyBySku, sku, initialQty(its[i])))
ensureQtyInitialized(its, qtyBySku) == ensureLoop(its, 1, qtyBySku)

\* Variant of itemMatches that does not lower-case the query.
itemMatchesCaseSensitive(item, query) ==
    IF query = <<>> THEN TRUE
    ELSE includes(join(<<normalize(item.sku), normalize(item.name), normalize(item.brand),
                         normalize(item.category), normalize(item.description)>>),
                  trim(query))

itemMatches(item, query) ==
    IF query = <<>> THEN TRUE
    ELSE LET q == normalize(Str(query))
             hay == join(<<normalize(item.sku), normalize(item.name), normalize(item.brand),
                           normalize(item.category), normalize(item.description)>>)
         IN  includes(hay, q)

\* Array.prototype.filter
RECURSIVE filterQuery(_, _)
filterQuery(list, query) ==
    IF list = <<>> THEN <<>>
    ELSE (IF itemMatches(Head(list), query) THEN <<Head(list)>> ELSE <<>>)
         \o filterQuery(Tail(list), query)
RECURSIVE filterCategory(_, _)
filterCategory(list, category) ==
    IF list = <<>> THEN <<>>
    ELSE (IF safeText(Head(list).category) = category THEN <<Head(list)>> ELSE <<>>)
         \o filterCategory(Tail(list), category)

\* The comparators of applyFiltersAndSort and of getCategories, by name.
byName(a, b) == Num(localeCompare(safeText(a.name), safeText(b.name)))
bySku(a, b) == Num(localeCompare(safeText(a.sku), safeText(b.sku)))
byPrice(a, b) == Minus(Number(a.priceExVat), Number(b.priceExVat))
Negate(n) == IF n.nan THEN NaN ELSE NumX10(0 - n.x10)
comparefn(sort, a, b) ==
    CASE sort = "name-desc" -> Negate(byName(a, b))
      [] sort = "price-asc" -> byPrice(a, b)
      [] sort = "price-desc" -> Negate(byPrice(a, b))
      [] sort = "sku-asc" -> bySku(a, b)
      [] sort = "sku-desc" -> Negate(bySku(a, b))
      [] sort = "categories" -> Num(localeCompare(a, b))
      [] OTHER -> byName(a, b)

\* Array.prototype.sort reads a comparator result as its sign, NaN as +0.
signOf(v) == IF v.nan THEN 0 ELSE IF v.x10 < 0 THEN -1 ELSE IF v.x10 > 0 THEN 1 ELSE 0
SortCompare(sort, a, b) == signOf(comparefn(sort, a, b))

\* A consistent comparator, as ECMAScript defines it, given the results
\* <<i, j, sign>> of comparing the elements at the places I.
consistent(I, results) ==
    LET eq(i, j) == <<i, j, 0>> \in results
        lt(i, j) == <<i, j, -1>> \in results
        gt(i, j) == <<i, j, 1>> \in results
    IN  /\ \A i \in I : eq(i, i)
        /\ \A i, j \in I : (eq(i, j) => eq(j, i)) /\ (lt(i, j) => gt(j, i))
        /\ \A i, j, k \in I :
              /\ (eq(i, j) /\ eq(j, k)) => eq(i, k)
              /\ (lt(i, j) /\ lt(j, k)) => lt(i, k)
              /\ (lt(i, j) /\ eq(j, k)) => lt(i, k)
              /\ (eq(i, j) /\ lt(j, k)) => lt(i, k)
ConsistentComparator(sort, list) ==
    consistent(DOMAIN list,
               {<<i, j, SortCompare(sort, list[i], list[j])>> : i \in DOMAIN list, j \in DOMAIN list})

\* The stable sort: each element goes behind the elements not above it.
insertStable(sort, sorted, x) ==
    LET k == Cardinality({i \in DOMAIN sorted : SortCompare(sort, sorted[i], x) <= 0})
    IN  SubSeq(sorted, 1, k) \o <<x>> \o SubSeq(sorted, k + 1, Len(sorted))
RECURSIVE stableSort(_, _)
stableSort(sort, list) ==
    IF list = <<>> THEN <<>>
    ELSE insertStable(sort, stableSort(sort, SubSeq(list, 1, Len(list) - 1)), list[Len(list)])

Reorderings(list) ==
    {[i \in DOMAIN list |-> list[p[i]]] : p \in Permutations(DOMAIN list)}

\* Array.prototype.sort: stable under a consistent comparator; under any
\* other the order is implementation-defined.
sortResults(sort, list) ==
    IF ConsistentComparator(sort, list) THEN {stableSort(sort, list)}
    ELSE Reorderings(list)

RECURSIVE distinctTruthy(_, _)
distinctTruthy(list, seen) ==
    IF list = <<>> THEN seen
    ELSE LET c == Head(list).category
         IN  IF Truthy(c) /\ JSToString(c) \notin Range(seen)
             THEN distinctTruthy(Tail(list), Append(seen, JSToString(c)))
             ELSE distinctTruthy(Tail(list), seen)
getCategories(list) == stableSort("categories", distinctTruthy(list, <<>>))

populateCategorySelect(its, opts) == opts \o getCategories(its)

\* The lists applyFiltersAndSort can return: one, unless the comparator is
\* inconsistent on the filtered products.
applyFiltersAndSort(its, st) ==
    LET searched == filterQuery(its, st.query)
        list == IF st.category # ALL THEN filterCategory(searched, st.category)
                ELSE searched
    IN  sortResults(st.sort, list)

\* Variant of the loop body that adds the price once, whatever the quantity.
cartAddUnitPrice(acc, it, qty) ==
    IF GreaterThan0(qty)
    THEN [count |-> Plus(acc.count, qty),
          subtotal |-> Plus(acc.subtotal, Number(OrElse(it.priceExVat, Num(0)))),
          currency |-> OrElse(it.currency, acc.currency)]
    ELSE acc

\* One pass of computeCart's loop body, qty being the product's quantity.
cartAdd(acc, it, qty) ==
    IF GreaterThan0(qty)
    THEN [count |-> Plus(acc.count, qty),
          subtotal |-> Plus(acc.subtotal, Times(qty, Number(OrElse(it.priceExVat, Num(0))))),
          currency |-> OrElse(it.currency, acc.currency)]
    ELSE acc
RECURSIVE cartLoop(_, _, _, _)
cartLoop(its, qtyBySku, i, acc) ==
    IF i > Len(its) THEN acc
    ELSE cartLoop(its, qtyBySku, i + 1,
                  cartAdd(acc, its[i],
                          Number(OrElse(Lookup(qtyBySku, safeText(its[i].sku)), Num(0)))))
computeCart(its, qtyBySku) ==
    cartLoop(its, qtyBySku, 1,
             [count |-> Num(0), subtotal |-> Num(0), currency |-> Str(<<"R">>)])

\* Variant of the clear-cart loop that empties the ledger instead.
clearCartDeleting(qtyBySku) == EmptyLedger

\* for (const sku of Object.keys(state.qtyBySku)) state.qtyBySku[sku] = 0
RECURSIVE clearLoop(_, _)
clearLoop(keys, qtyBySku) ==
    IF keys = {} THEN qtyBySku
    ELSE LET sku == CHOOSE k \in keys : TRUE
         IN  clearLoop(keys \ {sku}, Assign(qtyBySku, sku, Num(0)))
clearCart(qtyBySku) == clearLoop(DOMAIN qtyBySku, qtyBySku)

renderCard(it, qtyBySku) ==
    LET sku == safeText(it.sku)
        currency == safeText(OrElse(it.currency, Str(<<"R">>)))
        qty == Number(OrElse(Lookup(qtyBySku, sku), Num(0)))
    IN  [sku |-> sku,
         name |-> safeText(it.name),
         brand |-> safeText(OrElse(it.brand, Str(<<>>))),
         category |-> safeText(OrElse(it.category, Str(<<>>))),
         description |-> safeText(OrElse(it.description, Str(<<>>))),
         price |-> formatMoney(it.priceExVat, Str(currency)),
         qty |-> JSToString(qty)]

\* The quantity fields wireEvents gives a listener: one per rendered card.
wireEvents(renderedList) == {safeText(renderedList[i].sku) : i \in DOMAIN renderedList}

\* list.map(renderCard)
RECURSIVE renderCards(_, _)
renderCards(list, qtyBySku) ==
    IF list = <<>> THEN <<>>
    ELSE <<renderCard(Head(list), qtyBySku)>> \o renderCards(Tail(list), qtyBySku)

\* What render() writes for the list applyFiltersAndSort returned and the
\* totals computeCart returned.
domOf(list, qtyBySku, cart) ==
    [cartCount |-> JSToString(cart.count),
     cartSubtotal |-> formatMoney(cart.subtotal, cart.currency),
     resultsMeta |-> [n |-> JSToString(Num(Len(list))), text |-> " product(s) shown"],
     itemsGrid |-> [kind |-> "cards", cards |-> renderCards(list, qtyBySku), message |-> ""]]
renderDom(list, its, st) == domOf(list, st.qtyBySku, computeCart(its, st.qtyBySku))

\* render(), run on the new state st as call number n + 1 of its handler.
render(its, st, n) ==
    /\ \E list \in applyFiltersAndSort(its, st) :
          /\ dom' = renderDom(list, its, st)
          /\ listeners' = [listeners EXCEPT !.qty = wireEvents(list)]
    /\ renders' = n + 1

\* ---------------------------------------------------------------- init()

Init ==
    /\ pc = "loading"
    /\ items = <<>>
    /\ state = [query |-> <<>>, category |-> ALL, sort |-> "name-asc",
                qtyBySku |-> EmptyLedger]
    /\ options = <<ALL>>
    /\ listeners = [header |-> {}, qty |-> {}]
    /\ dom = [cartCount |-> <<>>, cartSubtotal |-> <<>>,
              resultsMeta |-> [n |-> <<>>, text |-> ""],
              itemsGrid |-> [kind |-> "empty", cards |-> <<>>, message |-> ""]]
    /\ renders = 0

HeaderControls == {"searchInput", "categorySelect", "sortSelect", "clearCartBtn"}

\* loadItems() resolved with data: init() runs on to its first render.
initFrom(data, st) ==
    /\ pc = "loading"
    /\ pc' = "ready"
    /\ items' = data
    /\ state' = st
    /\ options' = populateCategorySelect(data, options)
    /\ \E list \in applyFiltersAndSort(data, st) :
          /\ dom' = renderDom(list, data, st)
          /\ listeners' = [header |-> HeaderControls, qty |-> wireEvents(list)]
    /\ renders' = 1
initLoaded(data) ==
    initFrom(data, [state EXCEPT !.qtyBySku = ensureQtyInitialized(data, state.qtyBySku)])

\* Variant of the failure path in which the header controls were wired
\* before the load.
initFailedWired(message) ==
    /\ pc = "loading"
    /\ pc' = "failed"
    /\ dom' = [dom EXCEPT
                 !.resultsMeta = [n |-> <<>>, text |-> "Could not load products."],
                 !.itemsGrid = [kind |-> "error", cards |-> <<>>, message |-> message]]
    /\ listeners' = [listeners EXCEPT !.header = HeaderControls]
    /\ UNCHANGED <<items, state, options, renders>>

\* loadItems() threw err: init() rejects and the catch handler reports it.
initFailed(message) ==
    /\ pc = "loading"
    /\ pc' = "failed"
    /\ dom' = [dom EXCEPT
                 !.resultsMeta = [n |-> <<>>, text |-> "Could not load products."],
                 !.itemsGrid = [kind |-> "error", cards |-> <<>>, message |-> message]]
    /\ UNCHANGED <<items, state, options, listeners, renders>>

LoadSucceeds == \E data \in Catalogs : initLoaded(data)
LoadFails == \E message \in LoadErrors : initFailed(message)

\* --------------------------------------------------------- event handlers

onSearchInput(value) ==
    /\ "searchInput" \in listeners.header
    /\ state' = [state EXCEPT !.query = value]
    /\ render(items, [state EXCEPT !.query = value], 0)
    /\ UNCHANGED <<pc, items, options>>

\* Variant of the category handler that also empties the search query.
onCategoryChangeResetting(value) ==
    /\ "categorySelect" \in listeners.header
    /\ state' = [state EXCEPT !.category = value, !.query = <<>>]
    /\ render(items, [state EXCEPT !.category = value, !.query = <<>>], 0)
    /\ UNCHANGED <<pc, items, options>>

onCategoryChange(value) ==
    /\ "categorySelect" \in listeners.header
    /\ state' = [state EXCEPT !.category = value]
    /\ render(items, [state EXCEPT !.category = value], 0)
    /\ UNCHANGED <<pc, items, options>>

\* Variant of the sort handler that does not call render().
onSortChangeUnrendered(value) ==
    /\ "sortSelect" \in listeners.header
    /\ state' = [state EXCEPT !.sort = value]
    /\ renders' = 0
    /\ UNCHANGED <<pc, items, options, dom, listeners>>

onSortChange(value) ==
    /\ "sortSelect" \in listeners.header
    /\ state' = [state EXCEPT !.sort = value]
    /\ render(items, [state EXCEPT !.sort = value], 0)
    /\ UNCHANGED <<pc, items, options>>

\* The value the quantity listener stores for the field's text.
nextQty(value) == MathMax0(MathFloor(Number(OrElse(Str(value), Num(0)))))

onQtyInput(sku, value) ==
    /\ sku \in listeners.qty
    /\ state' = [state EXCEPT !.qtyBySku = Assign(state.qtyBySku, sku, nextQty(value))]
    /\ render(items, [state EXCEPT !.qtyBySku = Assign(state.qtyBySku, sku, nextQty(value))], 0)
    /\ UNCHANGED <<pc, items, options>>

onClearCart ==
    /\ "clearCartBtn" \in listeners.header
    /\ state' = [state EXCEPT !.qtyBySku = clearCart(state.qtyBySku)]
    /\ render(items, [state EXCEPT !.qtyBySku = clearCart(state.qtyBySku)], 0)
    /\ UNCHANGED <<pc, items, options>>

SearchInput == \E value \in Queries : onSearchInput(value)
CategoryChange == \E value \in Range(options) : onCategoryChange(value)
SortChange == \E value \in SortModes : onSortChange(value)
QtyInput == \E sku \in listeners.qty : \E value \in RawValues : onQtyInput(sku, value)
ClearCart == onClearCart

Next ==
    \/ LoadSucceeds
    \/ LoadFails
    \/ SearchInput
    \/ CategoryChange
    \/ SortChange
    \/ QtyInput
    \/ ClearCart

Spec == Init /\ [][Next]_vars

\* ------------------------------------------------------------ properties

Skus(its) == {safeText(its[i].sku) : i \in DOMAIN its}
InitialState ==
    [query |-> <<>>, category |-> ALL, sort |-> "name-asc", qtyBySku |-> EmptyLedger]
NonNegativeInteger(n) == n.tag = "number" /\ ~n.nan /\ n.x10 >= 0 /\ n.x10 % 10 = 0

C2_LedgerKeysAreCatalogSkus ==
    pc = "ready" => DOMAIN state.qtyBySku = Skus(items)
\* Both products keyed although the view is searched, filtered and re-sorted,
\* one quantity is edited and one card is not shown.
C2_Witness ==
    /\ pc = "ready" /\ Len(items) = 2
    /\ state.query # <<>> /\ state.category # ALL /\ state.sort = "price-desc"
    /\ state.qtyBySku # ensureQtyInitialized(items, EmptyLedger)
    /\ Cardinality(listeners.qty) = 1
    /\ Cardinality(DOMAIN state.qtyBySku) = 2

\* C7: after a failed load the catalog and the ledger are empty, the view
\* state is the initial one, no handler is wired, the listing shows the
\* failure's message, and nothing further can happen.
C7_FailedLoadAborts ==
    pc = "failed" =>
        /\ items = <<>>
        /\ state = InitialState
        /\ listeners = [header |-> {}, qty |-> {}]
        /\ renders = 0
        /\ dom.resultsMeta.text = "Could not load products."
        /\ dom.itemsGrid.kind = "error"
        /\ dom.itemsGrid.message \in LoadErrors
        /\ ~ENABLED Next
C7_Witness ==
    pc = "failed" /\ dom.itemsGrid.message = "Failed to load ./items.json (404)"

\* The ledger quantity of a catalog product; whether it counts towards the
\* cart; the product's price in tenths, a missing price counted as 0.
QuantityOf(it) == state.qtyBySku[safeText(it.sku)]
InCart(it) == ~QuantityOf(it).nan /\ QuantityOf(it).x10 > 0
PriceX10(it) ==
    IF it.priceExVat.tag = "number" /\ ~it.priceExVat.nan THEN it.priceExVat.x10 ELSE 0
RECURSIVE Sum(_)
Sum(f) ==
    IF DOMAIN f = {} THEN 0
    ELSE LET i == CHOOSE k \in DOMAIN f : TRUE
         IN  f[i] + Sum([k \in DOMAIN f \ {i} |-> f[k]])
Last(S) == CHOOSE i \in S : \A j \in S : j <= i

\* C3: computeCart returns the summed quantities of the products whose
\* quantity is > 0, the sum of quantity x price over the same products, and
\* the currency of the last of them that has one, else "R"; A1 at 10 and B2 at
\* 20 with quantities 2 and 1 give 3, 40 and "R".
C3_CartTotals ==
    pc = "ready" =>
        LET cart == computeCart(items, state.qtyBySku)
            inCart == {i \in DOMAIN items : InCart(items[i])}
            withCurrency == {i \in inCart : Truthy(items[i].currency)}
        IN  /\ cart.count = NumX10(Sum([i \in inCart |-> QuantityOf(items[i]).x10]))
            /\ cart.subtotal =
                  NumX10(Sum([i \in inCart |->
                                 (QuantityOf(items[i]).x10 * PriceX10(items[i])) \div 10]))
            /\ cart.currency = IF withCurrency = {} THEN Str(<<"R">>)
                               ELSE items[Last(withCurrency)].currency
            /\ (/\ items = <<Mug, Bowl>>
                /\ QuantityOf(Mug) = Num(2)
                /\ QuantityOf(Bowl) = Num(1))
               => cart = [count |-> Num(3), subtotal |-> Num(40), currency |-> Str(<<"R">>)]
\* The documented scenario, as typed into the two quantity fields and shown.
C3_Witness ==
    /\ pc = "ready" /\ items = <<Mug, Bowl>>
    /\ QuantityOf(Mug) = Num(2) /\ QuantityOf(Bowl) = Num(1)
    /\ dom.cartCount = <<"3">>
    /\ dom.cartSubtotal = <<"R", " ", "4", "0", ".", "0", "0">>

\* C4: a clear-cart step keeps every ledger key, sets every quantity to 0,
\* and the totals computed and shown after it are 0.
C4_ClearCartZeroes ==
    [][onClearCart =>
          /\ DOMAIN state'.qtyBySku = DOMAIN state.qtyBySku
          /\ \A sku \in DOMAIN state.qtyBySku : state'.qtyBySku[sku] = Num(0)
          /\ computeCart(items', state'.qtyBySku).count = Num(0)
          /\ computeCart(items', state'.qtyBySku).subtotal = Num(0)
          /\ dom'.cartCount = <<"0">>
          /\ dom'.cartSubtotal = <<"R", " ", "0", ".", "0", "0">>]_vars
\* A cleared cart: the product whose hint put 2 into the ledger stands at 0
\* next to the other one, and the totals show 0.
C4_Witness ==
    /\ pc = "ready" /\ Len(items) = 2
    /\ \E i \in DOMAIN items : initialQty(items[i]) = Num(2)
    /\ \A sku \in DOMAIN state.qtyBySku : state.qtyBySku[sku] = Num(0)
    /\ dom.cartCount = <<"0">>
    /\ dom.cartSubtotal = <<"R", " ", "0", ".", "0", "0">>

\* A product's searchable text: its five fields lower-cased and trimmed, a
\* missing one empty, joined by spaces.
FieldText(v) ==
    toLowerCase(trim(IF v.tag \in {"undefined", "null"} THEN <<>> ELSE JSToString(v)))
Searchable(it) ==
    FieldText(it.sku) \o <<" ">> \o FieldText(it.name) \o <<" ">> \o FieldText(it.brand)
    \o <<" ">> \o FieldText(it.category) \o <<" ">> \o FieldText(it.description)
IsSubstring(q, hay) == \E i \in 0..(Len(hay) - Len(q)) : SubSeq(hay, i + 1, i + Len(q)) = q
PassesQuery(it) ==
    state.query = <<>> \/ IsSubstring(toLowerCase(trim(state.query)), Searchable(it))
PassesCategory(it) ==
    state.category = ALL \/ (it.category.tag = "string" /\ it.category.s = state.category)

\* C5: the derived view holds exactly the catalog products that pass the
\* query filter and the category filter, each once.
C5_ViewIsFilteredCatalog ==
    pc = "ready" =>
        \A list \in applyFiltersAndSort(items, state) :
            /\ Range(list) = {items[i] : i \in {k \in DOMAIN items :
                                  PassesQuery(items[k]) /\ PassesCategory(items[k])}}
            /\ Cardinality(Range(list)) = Len(list)
\* Both products match the query, one by its name and one by its
\* description; the category keeps only the second.
C5_Witness ==
    /\ pc = "ready" /\ items = <<Bowl, Jug>>
    /\ state.query = <<" ", "B", "o", "w", "l", " ">>
    /\ state.category = <<"H", "o", "m", "e">>
    /\ PassesQuery(Bowl) /\ ~PassesCategory(Bowl)
    /\ Len(dom.itemsGrid.cards) = 1 /\ dom.itemsGrid.cards[1].sku = <<"C", "3">>

\* The quantity a hint stands for: its floor when it is a positive number,
\* else 0.
HintQuantity(it) ==
    IF it.qty.tag = "number" /\ ~it.qty.nan /\ it.qty.x10 > 0
    THEN NumX10(10 * (it.qty.x10 \div 10))
    ELSE Num(0)
Restrict(f, K) == [k \in K |-> f[k]]

\* C6: ensureQtyInitialized leaves every quantity the ledger holds as it is,
\* gives every other catalog sku the quantity of its hint, and run again
\* changes nothing.
C6_InitializationIdempotent ==
    pc = "ready" =>
        \A K \in SUBSET DOMAIN state.qtyBySku :
            LET held == Restrict(state.qtyBySku, K)
                once == ensureQtyInitialized(items, held)
            IN  /\ DOMAIN once = K \cup Skus(items)
                /\ \A sku \in K : once[sku] = held[sku]
                /\ \A i \in DOMAIN items :
                      safeText(items[i].sku) \notin K
                          => once[safeText(items[i].sku)] = HintQuantity(items[i])
                /\ ensureQtyInitialized(items, once) = once
\* The user has edited the hinted product's quantity from 2 to 1.
C6_Witness ==
    /\ pc = "ready" /\ Len(items) = 2
    /\ \E i \in DOMAIN items :
          /\ HintQuantity(items[i]) = Num(2)
          /\ QuantityOf(items[i]) = Num(1)

\* C8: under "price-asc" the derived view is in non-decreasing order of
\* price, a missing or non-numeric price counted as 0.
C8_PriceAscendingOrder ==
    (pc = "ready" /\ state.sort = "price-asc") =>
        \A list \in applyFiltersAndSort(items, state) :
            \A i, j \in DOMAIN list : i < j => PriceX10(list[i]) <= PriceX10(list[j])

\* C9: between events one render has run since the last event, and what is
\* shown (result count, cards with their quantities, cart count and subtotal,
\* quantity listeners) is what the current catalog, view state and ledger give.
C9_DisplayIsCurrent ==
    pc = "ready" =>
        /\ renders = 1
        /\ \E list \in applyFiltersAndSort(items, state) :
              /\ dom = renderDom(list, items, state)
              /\ listeners.qty = wireEvents(list)
              /\ dom.resultsMeta.n = NatToStr(Len(list))
              /\ Len(dom.itemsGrid.cards) = Len(list)
              /\ \A i \in DOMAIN list :
                    /\ dom.itemsGrid.cards[i].sku = safeText(list[i].sku)
                    /\ dom.itemsGrid.cards[i].qty =
                          (IF InCart(list[i]) THEN JSToString(QuantityOf(list[i])) ELSE <<"0">>)
        /\ dom.cartCount = JSToString(computeCart(items, state.qtyBySku).count)
\* Searched, re-sorted and edited: one of two products shown, with quantity 2.
C9_Witness ==
    /\ pc = "ready" /\ renders = 1 /\ Len(items) = 2
    /\ state.query # <<>> /\ state.sort = "sku-desc"
    /\ Len(dom.itemsGrid.cards) = 1
    /\ dom.itemsGrid.cards[1].qty = <<"2">>
    /\ dom.cartCount = <<"3">>

ViewState(st) == <<st.query, st.category, st.sort>>
CartShown(d) == <<d.cartCount, d.cartSubtotal>>

\* C10: a search, category or sort step changes only its own field of the
\* view state, leaving the ledger and the cart totals shown as they were; a
\* quantity or clear-cart step leaves the view state as it was; once loaded,
\* the catalog never changes.  (Each line reads "the step keeps these, or it
\* is no step of that handler".)
C10_EventsChangeOwnPart ==
    [][/\ \/ /\ state'.category = state.category /\ state'.sort = state.sort
             /\ state'.qtyBySku = state.qtyBySku /\ CartShown(dom') = CartShown(dom)
          \/ ~SearchInput
       /\ \/ /\ state'.query = state.query /\ state'.sort = state.sort
             /\ state'.qtyBySku = state.qtyBySku /\ CartShown(dom') = CartShown(dom)
          \/ ~CategoryChange
       /\ \/ /\ state'.query = state.query /\ state'.category = state.category
             /\ state'.qtyBySku = state.qtyBySku /\ CartShown(dom') = CartShown(dom)
          \/ ~SortChange
       /\ ViewState(state') = ViewState(state) \/ ~QtyInput
       /\ ViewState(state') = ViewState(state) \/ ~ClearCart
       /\ pc = "ready" => items' = items]_vars
\* Filtered down to no card at all while the cart still counts 2 units; the
\* catalog is in the order it was loaded in, not in the sort order.
C10_Witness ==
    /\ pc = "ready" /\ items = <<Mug, Bowl>>
    /\ state.sort = "name-asc" /\ state.category # ALL
    /\ state.query = <<" ", "B", "o", "w", "l", " ">>
    /\ dom.itemsGrid.cards = <<>>
    /\ dom.cartCount = <<"2">>

====
